---- MODULE Spec2Model ----
(***************************************************************************)
(* Model of the result printer of pkg/yqlib/printer.go: the resultsPrinter *)
(* state, SetNulSepOutput, SetAppendix, PrintedAnything, printNode,        *)
(* removeLastEOL and PrintResults.  One PrintResults call is one action;   *)
(* the collaborator calls it makes (explode, GetWriter, the encoder's      *)
(* PrintDocumentSeparator / PrintLeadingContent / Encode, Write, Flush,    *)
(* io.Copy) are recorded, in order, in the trace of the call.              *)
(*                                                                         *)
(* Bytes are modelled as one-token strings; a byte string is a sequence of *)
(* tokens.                                                                 *)
(***************************************************************************)
EXTENDS Integers, Sequences, FiniteSets, TLC

\* ---------------------------------------------------------------- bounds
\* nodes handed to PrintResults in one walk (SpecWalk) and over the lifetime of
\* one printer (SpecPrinted)
MaxNodes == 3
\* nodes handed to PrintResults over the lifetime of one printer (Spec, SpecBoundary)
MaxBatch == 2
\* largest document index of a node
MaxDoc == 1
\* largest file index of a node
MaxFile == 1
\* longest encoder output of a node in SpecEOL
MaxText == 3
\* longest appendix
MaxAppendix == 2

\* ---------------------------------------------------------------- bytes
NUL == "NUL"
CR == "CR"
LF == "LF"
Bytes == {NUL, CR, LF, "v"}

\* the reserved prefix of LeadingContent tested at printer.go:186
Sentinel == "$yqDocSeparator$"

RECURSIVE SeqsUpTo(_, _)
SeqsUpTo(S, n) ==
    IF n = 0 THEN {<<>>}
    ELSE LET shorter == SeqsUpTo(S, n - 1)
         IN  shorter \cup {Append(s, x) : s \in {t \in shorter : Len(t) = n - 1}, x \in S}

IsPrefix(s, t) == Len(s) <= Len(t) /\ SubSeq(t, 1, Len(s)) = s

\* ---------------------------------------------------------------- nodes
\* A CandidateNode as the printer reads it: Kind, Tag, Value, LeadingContent,
\* GetDocument(), GetFileIndex(); encoded is what the encoder's Encode writes
\* for the node.
MkNode(kind, tag, value, lc, doc, file, enc) ==
    [Kind |-> kind, Tag |-> tag, Value |-> value, LeadingContent |-> lc,
     document |-> doc, fileIndex |-> file, encoded |-> enc]

\* GetWriter(nil): the key of the appendix sink
NoNode == MkNode("nil", "", "", <<>>, 0, 0, <<>>)

DocIndexes == 0 .. MaxDoc
FileIndexes == 0 .. MaxFile

\* ---------------------------------------------------------------- collaborators
\* Encoder.PrintDocumentSeparator: the bytes of the format's document marker
DocumentSeparator == <<"---", LF>>

\* Encoder.PrintLeadingContent: the leading content, sentinel lines rendered
\* as document markers
LeadingBytes(lc) == [k \in 1 .. Len(lc) |-> IF lc[k] = Sentinel THEN "---" ELSE lc[k]]

\* the explode operation on one node: an alias becomes an inline copy of its target
ExplodeNode(node) ==
    IF node.Kind = "AliasNode"
    THEN [node EXCEPT !.Kind = "ScalarNode", !.Tag = "!!str", !.Value = "v",
                      !.encoded = <<"v", LF>>]
    ELSE node

\* treeNavigator.GetMatchingNodes with the explode operation, on the whole list
Explode(ns) == [k \in 1 .. Len(ns) |-> ExplodeNode(ns[k])]

\* ---------------------------------------------------------------- errors, faults, events
Err(step, n) == [step |-> step, n |-> n]
NoErr == Err("", 0)
\* the fmt.Errorf of printer.go:213
NulConflict == Err("NulConflict", 0)

\* A fault names the collaborator call that fails in this PrintResults call:
\* the step, the position of the node it is made for (0 outside the loop) and,
\* for io.Copy, how many appendix bytes were read and written before it failed
\* (no more than there are, and none written that was not read).
Fault(step, n, read, wrote) == [step |-> step, n |-> n, read |-> read, wrote |-> wrote]
NoFault == Fault("", 0, 0, 0)

NodeSteps == {"GetWriter", "PrintDocumentSeparator", "PrintLeadingContent", "Encode",
              "Write", "WriteNUL", "Flush"}

Event(op, n, node, dest, bytes, ok) ==
    [op |-> op, n |-> n, node |-> node, dest |-> dest, bytes |-> bytes, ok |-> ok]

\* one collaborator call: skipped once the call has returned, failing when the
\* fault names it, otherwise logged with the bytes it puts into dest
Call(st, f, op, n, node, dest, bytes) ==
    IF st.err # NoErr THEN st
    ELSE IF f.step = op /\ f.n = n
         THEN [st EXCEPT !.ev = Append(@, Event(op, n, node, dest, <<>>, FALSE)),
                         !.err = Err(op, n)]
         ELSE [st EXCEPT !.ev = Append(@, Event(op, n, node, dest, bytes, TRUE))]

\* ---------------------------------------------------------------- the registry of formats
\* A name is the sequence of its characters, the empty string the empty
\* sequence. A format is the struct of printer.go:23-27; its EncoderFactory is
\* the name of the constructor the factory calls, "nil" when the struct
\* literal leaves the field out.
PrinterOutputFormat(FormalName, Names, EncoderFactory) ==
    [FormalName |-> FormalName, Names |-> Names, EncoderFactory |-> EncoderFactory]

YamlOutputFormat ==
    PrinterOutputFormat(<<"y", "a", "m", "l">>, <<<<"y">>, <<"y", "m", "l">>>>, "NewYamlEncoder")
JSONOutputFormat ==
    PrinterOutputFormat(<<"j", "s", "o", "n">>, <<<<"j">>>>, "NewJSONEncoder")
PropsOutputFormat ==
    PrinterOutputFormat(<<"p", "r", "o", "p", "s">>, <<<<"p">>, <<"p", "r", "o", "p", "e", "r", "t", "i", "e", "s">>>>, "NewPropertiesEncoder")
CSVOutputFormat ==
    PrinterOutputFormat(<<"c", "s", "v">>, <<<<"c">>>>, "NewCsvEncoder")
TSVOutputFormat ==
    PrinterOutputFormat(<<"t", "s", "v">>, <<<<"t">>>>, "NewCsvEncoder")
XMLOutputFormat ==
    PrinterOutputFormat(<<"x", "m", "l">>, <<<<"x">>>>, "NewXMLEncoder")
Base64OutputFormat ==
    PrinterOutputFormat(<<>>, <<>>, "nil")
UriOutputFormat ==
    PrinterOutputFormat(<<>>, <<>>, "nil")
ShOutputFormat ==
    PrinterOutputFormat(<<>>, <<>>, "nil")
TomlOutputFormat ==
    PrinterOutputFormat(<<"t", "o", "m", "l">>, <<>>, "NewTomlEncoder")
ShellVariablesOutputFormat ==
    PrinterOutputFormat(<<"s", "h", "e", "l", "l">>, <<<<"s">>, <<"s", "h">>>>, "NewShellVariablesEncoder")
LuaOutputFormat ==
    PrinterOutputFormat(<<"l", "u", "a">>, <<<<"l">>>>, "NewLuaEncoder")

\* The registered list. The variables above are pointers: a format is known
\* by its place in this list, so two formats with equal fields stay two formats.
Formats ==
    <<YamlOutputFormat, JSONOutputFormat, PropsOutputFormat, CSVOutputFormat,
      TSVOutputFormat, XMLOutputFormat, Base64OutputFormat, UriOutputFormat,
      ShOutputFormat, TomlOutputFormat, ShellVariablesOutputFormat, LuaOutputFormat>>

\* PrinterOutputFormat.MatchesName
MatchesName(f, name) ==
    f.FormalName = name \/ \E k \in 1 .. Len(f.Names) : f.Names[k] = name

\* the loop of OutputFormatFromString from place i: the place of the first
\* format that matches, 0 when the loop runs out
RECURSIVE firstMatching(_, _)
firstMatching(format, i) ==
    IF i > Len(Formats) THEN 0
    ELSE IF MatchesName(Formats[i], format) THEN i
    ELSE firstMatching(format, i + 1)

\* OutputFormatFromString: the pointer returned (0 for nil) and the error
OutputFormatFromString(format) ==
    LET i == firstMatching(format, 1)
    IN  IF i = 0 THEN [printerFormat |-> 0, err |-> "unknown format"]
        ELSE [printerFormat |-> i, err |-> "nil"]

\* no lookup made yet
Pending == [printerFormat |-> 0, err |-> "pending"]

\* ---------------------------------------------------------------- printer.go
NoReader == [set |-> FALSE, rest |-> <<>>]
Reader(b) == [set |-> TRUE, rest |-> b]

\* NewPrinter
NewPrinter ==
    [firstTimePrinting |-> TRUE, previousDocIndex |-> 0, previousFileIndex |-> 0,
     printedMatches |-> FALSE, appendixReader |-> NoReader, nulSepOutput |-> FALSE]

\* printNode's flag with a slip: the value "false" is taken for empty whatever the tag
printedFlagAnyFalse(printedMatches, node) ==
    printedMatches \/ (node.Tag # "!!null" /\ node.Value # "false")

\* printNode, the flag it computes before Encode
printedFlag(printedMatches, node) ==
    printedMatches \/ (node.Tag # "!!null" /\ (node.Tag # "!!bool" \/ node.Value # "false"))

\* removeLastEOL with a slip: LF CR is taken for a pair as CR LF is
removeLastEOLEitherOrder(data) ==
    LET n == Len(data)
    IN  IF n >= 2 /\ data[n - 1] \in {CR, LF} /\ data[n] \in {CR, LF} /\ data[n - 1] # data[n]
        THEN SubSeq(data, 1, n - 2)
        ELSE IF n >= 1 /\ (data[n] = CR \/ data[n] = LF) THEN SubSeq(data, 1, n - 1)
        ELSE data

\* removeLastEOL
removeLastEOL(data) ==
    LET n == Len(data)
    IN  IF n >= 2 /\ data[n - 1] = CR /\ data[n] = LF THEN SubSeq(data, 1, n - 2)
        ELSE IF n >= 1 /\ (data[n] = CR \/ data[n] = LF) THEN SubSeq(data, 1, n - 1)
        ELSE data

\* the NUL scan with a slip: only the first byte is looked at
containsNULFirstByte(data) == Len(data) >= 1 /\ data[1] = NUL

\* bytes.IndexByte(tempBufferBytes, 0) != -1
containsNUL(data) == \E k \in 1 .. Len(data) : data[k] = NUL

\* the sentinel test with a slip: the pattern is not anchored at the start
commentContainsSeparator(lc) == \E k \in 1 .. Len(lc) : lc[k] = Sentinel

\* commentsStartWithSepExp.MatchString(mappedDoc.LeadingContent)
commentStartsWithSeparator(lc) == Len(lc) >= 1 /\ lc[1] = Sentinel

\* the condition of printer.go:189
separatorDue(p, node) ==
    (p.previousDocIndex # node.document \/ p.previousFileIndex # node.fileIndex)
    /\ ~commentStartsWithSeparator(node.LeadingContent)

\* the priming with a slip: it is done on every call
primeFirstTimeEveryCall(p, ns) ==
    [p EXCEPT !.previousDocIndex = ns[1].document,
              !.previousFileIndex = ns[1].fileIndex,
              !.firstTimePrinting = FALSE]

\* the priming with a slip: the file index of the first node is not taken
primeFirstTimeDocOnly(p, ns) ==
    IF p.firstTimePrinting
    THEN [p EXCEPT !.previousDocIndex = ns[1].document, !.firstTimePrinting = FALSE]
    ELSE p

\* printer.go:169-174
primeFirstTime(p, ns) ==
    IF p.firstTimePrinting
    THEN [p EXCEPT !.previousDocIndex = ns[1].document,
                   !.previousFileIndex = ns[1].fileIndex,
                   !.firstTimePrinting = FALSE]
    ELSE p

\* printer.go:136-137, when the call is still running
markPrinted(st, node) ==
    IF st.err # NoErr THEN st
    ELSE [st EXCEPT !.p.printedMatches = printedFlag(@, node)]

\* the bookkeeping with a slip: the file index is remembered with the document index
rememberDocumentAndFile(st, node) ==
    IF st.err # NoErr THEN st
    ELSE [st EXCEPT !.p.previousDocIndex = node.document,
                    !.p.previousFileIndex = node.fileIndex]

\* printer.go:225, when the call is still running
rememberDocument(st, node) ==
    IF st.err # NoErr THEN st
    ELSE [st EXCEPT !.p.previousDocIndex = node.document]

\* printer.go:209-223: the record of one node in NUL-separated mode
nulRecord(st, f, n, node) ==
    LET tempBufferBytes == removeLastEOL(LeadingBytes(node.LeadingContent) \o node.encoded)
    IN  IF st.err # NoErr THEN st
        ELSE IF containsNUL(tempBufferBytes) THEN [st EXCEPT !.err = NulConflict]
        ELSE Call(Call(st, f, "Write", n, node, "writer", tempBufferBytes),
                  f, "WriteNUL", n, node, "writer", <<NUL>>)

\* one iteration with a slip: the flag is computed once the node is written
printOneMarksLate(st, f, n, node) ==
    LET destination == IF st.p.nulSepOutput THEN "tempBuffer" ELSE "writer"
        s1 == Call(st, f, "GetWriter", n, node, "writer", <<>>)
        s2 == IF separatorDue(st.p, node)
              THEN Call(s1, f, "PrintDocumentSeparator", n, node, "writer", DocumentSeparator)
              ELSE s1
        s3 == Call(s2, f, "PrintLeadingContent", n, node, destination,
                   LeadingBytes(node.LeadingContent))
        s5 == Call(s3, f, "Encode", n, node, destination, node.encoded)
        s6 == IF st.p.nulSepOutput THEN nulRecord(s5, f, n, node) ELSE s5
        s7 == rememberDocument(markPrinted(s6, node), node)
    IN  Call(s7, f, "Flush", n, node, "writer", <<>>)

\* one iteration with a slip: the sink is flushed before the node is encoded
printOneFlushEarly(st, f, n, node) ==
    LET destination == IF st.p.nulSepOutput THEN "tempBuffer" ELSE "writer"
        s1 == Call(st, f, "GetWriter", n, node, "writer", <<>>)
        s2 == IF separatorDue(st.p, node)
              THEN Call(s1, f, "PrintDocumentSeparator", n, node, "writer", DocumentSeparator)
              ELSE s1
        s3 == Call(s2, f, "PrintLeadingContent", n, node, destination,
                   LeadingBytes(node.LeadingContent))
        s4 == Call(s3, f, "Flush", n, node, "writer", <<>>)
        s5 == Call(markPrinted(s4, node), f, "Encode", n, node, destination, node.encoded)
        s6 == IF st.p.nulSepOutput THEN nulRecord(s5, f, n, node) ELSE s5
    IN  rememberDocument(s6, node)

\* printer.go:178-229: one iteration of the loop
printOne(st, f, n, node) ==
    LET destination == IF st.p.nulSepOutput THEN "tempBuffer" ELSE "writer"
        s1 == Call(st, f, "GetWriter", n, node, "writer", <<>>)
        s2 == IF separatorDue(st.p, node)
              THEN Call(s1, f, "PrintDocumentSeparator", n, node, "writer", DocumentSeparator)
              ELSE s1
        s3 == Call(s2, f, "PrintLeadingContent", n, node, destination,
                   LeadingBytes(node.LeadingContent))
        s4 == markPrinted(s3, node)
        s5 == Call(s4, f, "Encode", n, node, destination, node.encoded)
        s6 == IF st.p.nulSepOutput THEN nulRecord(s5, f, n, node) ELSE s5
        s7 == rememberDocument(s6, node)
    IN  Call(s7, f, "Flush", n, node, "writer", <<>>)

\* the loop with a slip: it returns after its first iteration
printLoopReturnsEarly(st, f, ns, n) ==
    IF n > Len(ns) \/ st.err # NoErr THEN st ELSE printOne(st, f, n, ns[n])

\* printer.go:176-230: the loop over the list, from position n
RECURSIVE printLoop(_, _, _, _)
printLoop(st, f, ns, n) ==
    IF n > Len(ns) \/ st.err # NoErr THEN st
    ELSE printLoop(printOne(st, f, n, ns[n]), f, ns, n + 1)

Min(a, b) == IF a < b THEN a ELSE b

\* io.Copy with a slip: the reader is left as it was, as if rewound
copyAppendixRewound(st, f) ==
    IF st.err # NoErr THEN st
    ELSE IF f.step = "Copy"
    THEN [st EXCEPT !.ev = Append(@, Event("Copy", 0, NoNode, "writer", <<>>, FALSE)),
                    !.err = Err("Copy", 0)]
    ELSE [st EXCEPT !.ev = Append(@, Event("Copy", 0, NoNode, "writer",
                                           st.p.appendixReader.rest, TRUE))]

\* printer.go:240-244: io.Copy from the appendix reader to the writer
copyAppendix(st, f) ==
    LET rest == st.p.appendixReader.rest
        read == Min(f.read, Len(rest))
        wrote == Min(f.wrote, read)
    IN  IF st.err # NoErr THEN st
        ELSE IF f.step = "Copy"
        THEN [st EXCEPT !.ev = Append(@, Event("Copy", 0, NoNode, "writer",
                                               SubSeq(rest, 1, wrote), FALSE)),
                        !.err = Err("Copy", 0),
                        !.p.appendixReader.rest = SubSeq(rest, read + 1, Len(rest))]
        ELSE [st EXCEPT !.ev = Append(@, Event("Copy", 0, NoNode, "writer", rest, TRUE)),
                        !.p.appendixReader.rest = <<>>]

\* the appendix piped whether or not the loop failed, the loop's error returned
pipeAppendixAfterError(st, f) ==
    IF ~st.p.appendixReader.set THEN st
    ELSE LET s0 == [st EXCEPT !.err = NoErr]
             s3 == Call(copyAppendix(Call(s0, f, "GetWriterNil", 0, NoNode, "writer", <<>>), f),
                        f, "FlushAppendix", 0, NoNode, "writer", <<>>)
         IN  IF st.err # NoErr THEN [s3 EXCEPT !.err = st.err] ELSE s3

\* printer.go:233-248
pipeAppendix(st, f) ==
    IF st.err # NoErr \/ ~st.p.appendixReader.set THEN st
    ELSE Call(copyAppendix(Call(st, f, "GetWriterNil", 0, NoNode, "writer", <<>>), f),
              f, "FlushAppendix", 0, NoNode, "writer", <<>>)

\* the explode step with a slip: the exploded list is dropped
explodeStepResultDropped(st, f, canHandleAliases) ==
    IF canHandleAliases THEN st
    ELSE Call(st, f, "Explode", 0, NoNode, "none", <<>>)

\* printer.go:159-167: the list the rest of the call works on
explodeStep(st, f, canHandleAliases) ==
    IF canHandleAliases THEN st
    ELSE LET s1 == Call(st, f, "Explode", 0, NoNode, "none", <<>>)
         IN  IF s1.err # NoErr THEN s1 ELSE [s1 EXCEPT !.list = Explode(@)]

\* printer.go:169-250, after the list is settled
printAll(st, f) ==
    IF st.err # NoErr THEN st
    ELSE pipeAppendix(printLoop([st EXCEPT !.p = primeFirstTime(@, st.list)], f, st.list, 1), f)

\* PrintResults with the empty-list return moved behind the appendix
printResultsAppendixFirst(p, canHandleAliases, matchingNodes, f) ==
    LET st == [p |-> p, list |-> matchingNodes, ev |-> <<>>, err |-> NoErr]
    IN  IF Len(matchingNodes) = 0 THEN pipeAppendix(st, f)
        ELSE printAll(explodeStep(st, f, canHandleAliases), f)

\* PrintResults: the printer after the call, the list it worked on, the trace
\* of collaborator calls and the error returned
printResults(p, canHandleAliases, matchingNodes, f) ==
    LET st == [p |-> p, list |-> matchingNodes, ev |-> <<>>, err |-> NoErr]
    IN  IF Len(matchingNodes) = 0 THEN st
        ELSE printAll(explodeStep(st, f, canHandleAliases), f)

\* ---------------------------------------------------------------- state
VARIABLES
    printer,            \* the resultsPrinter fields
    canHandleAliases,   \* encoder.CanHandleAliases(), fixed at construction
    fresh,              \* whether the last operation began on a printer still to be primed
    op,                 \* the last operation
    arg,                \* the list handed to the last PrintResults
    list,               \* the list that call worked on (exploded or not)
    events,             \* the collaborator calls of that call, in order
    err,                \* the error it returned
    given,              \* nodes handed to PrintResults so far
    reachedEncode,      \* nodes that reached printNode so far, by emptiness
    source,             \* the registered appendix: its length, the bytes copied from it
    format,             \* the string handed to OutputFormatFromString
    resolved            \* what OutputFormatFromString returned for it

vars == <<printer, canHandleAliases, fresh, op, arg, list, events, err, given,
          reachedEncode, source, format, resolved>>

\* the printer after NewPrinter, nothing called yet
InitPrinter ==
    /\ printer = NewPrinter
    /\ canHandleAliases \in BOOLEAN
    /\ fresh = TRUE
    /\ op = "NewPrinter"
    /\ arg = <<>>
    /\ list = <<>>
    /\ events = <<>>
    /\ err = NoErr
    /\ given = 0
    /\ reachedEncode = {}
    /\ source = [len |-> 0, copied |-> 0]

Init == InitPrinter /\ format = <<>> /\ resolved = Pending

\* the value of the empty-value rule for a node, as the specification words it
IsEmptyValue(node) ==
    node.Tag = "!!null" \/ (node.Tag = "!!bool" /\ node.Value = "false")

OpsOf(evs, name) == {k \in 1 .. Len(evs) : evs[k].op = name}

RECURSIVE Concat(_)
Concat(ss) == IF ss = <<>> THEN <<>> ELSE Head(ss) \o Concat(Tail(ss))

\* the bytes a trace puts into the sinks, in order
SinkBytes(evs) ==
    Concat([k \in 1 .. Len(evs) |-> IF evs[k].dest = "writer" THEN evs[k].bytes ELSE <<>>])

\* SetNulSepOutput
SetNulSepOutput(nulSepOutput) ==
    /\ fresh' = printer.firstTimePrinting
    /\ printer' = [printer EXCEPT !.nulSepOutput = nulSepOutput]
    /\ op' = "SetNulSepOutput"
    /\ arg' = <<>> /\ list' = <<>> /\ events' = <<>> /\ err' = NoErr
    /\ UNCHANGED <<canHandleAliases, given, reachedEncode, source, format, resolved>>

\* SetAppendix
SetAppendix(reader) ==
    /\ fresh' = printer.firstTimePrinting
    /\ printer' = [printer EXCEPT !.appendixReader = reader]
    /\ op' = "SetAppendix"
    /\ source' = [len |-> Len(reader.rest), copied |-> 0]
    /\ arg' = <<>> /\ list' = <<>> /\ events' = <<>> /\ err' = NoErr
    /\ UNCHANGED <<canHandleAliases, given, reachedEncode, format, resolved>>

\* PrintResults
PrintResults(matchingNodes, f) ==
    \E r \in {printResults(printer, canHandleAliases, matchingNodes, f)} :
        /\ f = NoFault \/ r.err = Err(f.step, f.n)
        /\ fresh' = printer.firstTimePrinting
        /\ printer' = r.p
        /\ op' = "PrintResults"
        /\ arg' = matchingNodes
        /\ list' = r.list
        /\ events' = r.ev
        /\ err' = r.err
        /\ given' = given + Len(matchingNodes)
        /\ reachedEncode' = reachedEncode \cup
               {IsEmptyValue(r.ev[k].node) : k \in OpsOf(r.ev, "Encode")}
        /\ source' = [source EXCEPT !.copied =
               @ + Len(SinkBytes(SelectSeq(r.ev, LAMBDA e : e.op = "Copy")))]
        /\ UNCHANGED <<canHandleAliases, format, resolved>>

\* a call of OutputFormatFromString on the string drawn
ResolveFormat ==
    /\ resolved = Pending
    /\ resolved' = OutputFormatFromString(format)
    /\ UNCHANGED <<printer, canHandleAliases, fresh, op, arg, list, events, err, given,
                   reachedEncode, source, format>>

\* ---------------------------------------------------------------- inputs
Plain == <<"v", LF>>

Scalar(tag, value, lc, doc, file, enc) == MkNode("ScalarNode", tag, value, lc, doc, file, enc)

LeadingContents == {<<>>, <<Sentinel, LF>>}

\* nodes that differ in where they come from and in their leading content
BoundaryNodes ==
    {Scalar("!!str", "v", lc, d, fi, Plain) :
        lc \in LeadingContents, d \in DocIndexes, fi \in FileIndexes}

\* a plain node of document 0, one of document 1, one whose encoding holds a
\* NUL byte and an alias
FaultNodes ==
    {Scalar("!!str", "v", <<>>, 0, 0, Plain),
     Scalar("!!str", "v", <<>>, 1, 0, Plain),
     Scalar("!!str", "v", <<>>, 0, 0, <<"v", NUL, LF>>),
     MkNode("AliasNode", "", "a", <<>>, 0, 0, <<"*a", LF>>)}

\* nodes whose leading content holds the sentinel after a comment line
CommentedNodes ==
    {Scalar("!!str", "v", <<"#", LF, Sentinel, LF>>, d, fi, Plain) :
        d \in DocIndexes, fi \in FileIndexes}

\* nodes that differ in tag and value
ValueNodes ==
    {Scalar(tv[1], tv[2], <<>>, 0, 0, Plain) :
        tv \in {<<"!!null", "null">>, <<"!!null", "false">>, <<"!!bool", "false">>,
                <<"!!bool", "true">>, <<"!!str", "false">>}}

\* the lists of n nodes
Lists(nodes, n) == [1 .. n -> nodes]

AppendixBytes == [k \in 1 .. MaxAppendix |-> IF k % 2 = 1 THEN "a" ELSE "b"]
Readers == {NoReader} \cup {Reader(SubSeq(AppendixBytes, 1, k)) : k \in 0 .. MaxAppendix}

NodeFaults(n) == {Fault(step, k, 0, 0) : step \in NodeSteps, k \in 1 .. n}
CallFaults ==
    {Fault(step, 0, 0, 0) : step \in {"Explode", "GetWriterNil", "FlushAppendix"}}
    \cup {Fault("Copy", 0, r, w) : r \in 0 .. MaxAppendix, w \in {0, 1}}
Faults(n) == {NoFault} \cup NodeFaults(n) \cup CallFaults

\* ---------------------------------------------------------------- specifications
\* every operation, every fault
Next ==
    \/ given < MaxBatch /\ \E b \in BOOLEAN : SetNulSepOutput(b)
    \/ given < MaxBatch /\ \E r \in Readers : SetAppendix(r)
    \/ \E n \in 0 .. MaxBatch - given : \E ns \in Lists(FaultNodes, n) :
           \E f \in Faults(n) : PrintResults(ns, f)

Spec == Init /\ [][Next]_vars

\* where the nodes come from: boundaries between documents and files, no fault,
\* an encoder that handles aliases
InitBoundary == Init /\ canHandleAliases

NextBoundary ==
    \/ given < MaxBatch /\ \E b \in BOOLEAN : SetNulSepOutput(b)
    \/ \E n \in 0 .. MaxBatch - given :
           \E ns \in Lists(BoundaryNodes \cup CommentedNodes, n) : PrintResults(ns, NoFault)

SpecBoundary == InitBoundary /\ [][NextBoundary]_vars

\* one walk over a longer list, on a printer that has printed nothing yet
NextWalk ==
    \/ given = 0 /\ \E b \in BOOLEAN : SetNulSepOutput(b)
    \/ given = 0 /\ \E n \in 0 .. MaxNodes :
           \E ns \in Lists(BoundaryNodes, n) : PrintResults(ns, NoFault)

SpecWalk == InitBoundary /\ [][NextWalk]_vars

\* what the nodes hold: tags and values, faults before, at and after Encode
PrintedFaults(n) ==
    {NoFault} \cup {Fault(step, k, 0, 0) :
                       step \in {"GetWriter", "PrintLeadingContent", "Encode", "Flush"},
                       k \in 1 .. n}

NextPrinted ==
    \E n \in 0 .. MaxNodes - given : \E ns \in Lists(ValueNodes, n) :
        \E f \in PrintedFaults(n) : PrintResults(ns, f)

SpecPrinted == InitBoundary /\ [][NextPrinted]_vars

\* what the encoder writes: every short byte string, after either leading content
EOLNodes ==
    {Scalar("!!str", "v", lc, 0, 0, enc) :
        lc \in {<<>>, <<"#", LF>>}, enc \in SeqsUpTo(Bytes, MaxText)}

NextEOL ==
    \/ \E b \in BOOLEAN : SetNulSepOutput(b)
    \/ given = 0 /\ \E node \in EOLNodes : PrintResults(<<node>>, NoFault)

SpecEOL == InitBoundary /\ [][NextEOL]_vars

\* one list in one call or in several: boundaries between documents and
\* files, either output mode, no fault, an encoder that handles aliases
NextSplit ==
    \/ given < MaxBatch /\ \E b \in BOOLEAN : SetNulSepOutput(b)
    \/ \E n \in 0 .. MaxBatch - given :
           \E ns \in Lists(BoundaryNodes, n) : PrintResults(ns, NoFault)

SpecSplit == InitBoundary /\ [][NextSplit]_vars

\* what PrintedAnything() reports over a printer's life: an empty node, a
\* non-empty one and one whose encoding holds a NUL byte, either output mode,
\* any appendix, calls that fail in Encode
FlagNodes ==
    {Scalar("!!null", "null", <<>>, 0, 0, Plain),
     Scalar("!!bool", "true", <<>>, 0, 0, Plain),
     Scalar("!!str", "v", <<>>, 0, 0, <<"v", NUL, LF>>)}

NextFlag ==
    \/ given < MaxBatch /\ \E b \in BOOLEAN : SetNulSepOutput(b)
    \/ given < MaxBatch /\ \E r \in Readers : SetAppendix(r)
    \/ \E n \in 0 .. MaxBatch - given : \E ns \in Lists(FlagNodes, n) :
           \E f \in {NoFault} \cup {Fault("Encode", k, 0, 0) : k \in 1 .. n} :
               PrintResults(ns, f)

SpecFlag == InitBoundary /\ [][NextFlag]_vars

\* which node the printer sees first and what it remembers: every document
\* and file index, either encoder, calls that fail in the explode operation,
\* in Encode or in Flush
IndexFaults(n) ==
    {NoFault, Fault("Explode", 0, 0, 0)}
    \cup {Fault(step, k, 0, 0) : step \in {"Encode", "Flush"}, k \in 1 .. n}

NextIndexes ==
    \E n \in 0 .. MaxBatch - given : \E ns \in Lists(BoundaryNodes, n) :
        \E f \in IndexFaults(n) : PrintResults(ns, f)

SpecIndexes == Init /\ [][NextIndexes]_vars

\* the registry: every declared name, every prefix of one (the empty string
\* among them) and every declared name with one more letter
NamesOf(f) == {f.FormalName} \cup {f.Names[k] : k \in 1 .. Len(f.Names)}
DeclaredNames == UNION {NamesOf(Formats[i]) : i \in 1 .. Len(Formats)}
Letters == UNION {{name[k] : k \in 1 .. Len(name)} : name \in DeclaredNames}
FormatInputs ==
    UNION {{SubSeq(name, 1, k) : k \in 0 .. Len(name)} : name \in DeclaredNames}
    \cup {Append(name, c) : name \in DeclaredNames, c \in Letters}

InitFormats == InitPrinter /\ canHandleAliases /\ format \in FormatInputs /\ resolved = Pending

NextFormats == ResolveFormat

SpecFormats == InitFormats /\ [][NextFormats]_vars

\* ---------------------------------------------------------------- claims
HasSentinelPrefix(lc) == IsPrefix(<<Sentinel>>, lc)

Called == op = "PrintResults"

\* the bytes the call buffered for the node at position n
BufferOf(evs, n) ==
    Concat([k \in 1 .. Len(evs) |->
        IF evs[k].n = n /\ evs[k].dest = "tempBuffer" THEN evs[k].bytes ELSE <<>>])

EndsWith(b, suffix) ==
    Len(b) >= Len(suffix) /\ SubSeq(b, Len(b) - Len(suffix) + 1, Len(b)) = suffix

\* positions of a walk where the (document, file) pair changes and the node
\* does not carry the sentinel
Transitions(ns) ==
    {i \in 2 .. Len(ns) :
        /\ <<ns[i].document, ns[i].fileIndex>> # <<ns[i - 1].document, ns[i - 1].fileIndex>>
        /\ ~HasSentinelPrefix(ns[i].LeadingContent)}

\* C1: a successful walk over a non-empty list on a fresh printer calls
\* PrintDocumentSeparator once for every position i>0 whose (document, file)
\* pair differs from that of position i-1 and whose node lacks the sentinel,
\* and for no other position.
C1_SeparatorPerTransition ==
    (Called /\ fresh /\ list # <<>> /\ err = NoErr)
        => Cardinality(OpsOf(events, "PrintDocumentSeparator")) = Cardinality(Transitions(list))

\* C2: in NUL-separated mode a node whose buffered bytes hold a NUL byte makes
\* the call return the NUL-conflict error, and the Encode of that node is the
\* last thing the call did.
C2_NulConflictStopsCall ==
    (Called /\ printer.nulSepOutput) =>
        \A k \in OpsOf(events, "Encode") :
            (events[k].ok /\ \E j \in 1 .. Len(BufferOf(events, events[k].n)) :
                                 BufferOf(events, events[k].n)[j] = NUL)
                => (err = NulConflict /\ k = Len(events))

\* a conflict at the first of two nodes, an appendix waiting
C2_Witness ==
    /\ Called /\ printer.nulSepOutput /\ err = NulConflict
    /\ Len(list) = 2
    /\ events[Len(events)].op = "Encode" /\ events[Len(events)].n = 1
    /\ printer.appendixReader.set /\ printer.appendixReader.rest # <<>>

\* the record of a node as the specification words it: its buffered bytes
\* less one trailing line terminator
RecordOf(node) ==
    LET b == LeadingBytes(node.LeadingContent) \o node.encoded
    IN  IF EndsWith(b, <<CR, LF>>) THEN SubSeq(b, 1, Len(b) - 2)
        ELSE IF EndsWith(b, <<CR>>) \/ EndsWith(b, <<LF>>) THEN SubSeq(b, 1, Len(b) - 1)
        ELSE b

\* C3: in NUL-separated mode the bytes a successful call writes to the sink
\* are, node by node, the record followed by one NUL byte, and nothing else.
C3_NulFramingOnly ==
    (Called /\ printer.nulSepOutput /\ err = NoErr /\ ~printer.appendixReader.set)
        => SinkBytes(events) = Concat([i \in 1 .. Len(list) |-> RecordOf(list[i]) \o <<NUL>>])

\* C4: the record written for a node in NUL-separated mode is a prefix of the
\* buffered bytes; what is cut off is CR LF when the bytes end in CR LF,
\* otherwise the one trailing CR or LF when there is one, otherwise nothing.
C4_OneTerminatorRemoved ==
    (Called /\ printer.nulSepOutput) =>
        \A k \in OpsOf(events, "Write") :
            LET b == BufferOf(events, events[k].n)
                w == events[k].bytes
                cut == SubSeq(b, Len(w) + 1, Len(b))
            IN  /\ IsPrefix(w, b)
                /\ IF EndsWith(b, <<CR, LF>>) THEN cut = <<CR, LF>>
                   ELSE IF EndsWith(b, <<CR>>) THEN cut = <<CR>>
                   ELSE IF EndsWith(b, <<LF>>) THEN cut = <<LF>>
                   ELSE cut = <<>>

\* 'v LF CR' is written as 'v LF'
C4_Witness ==
    /\ Called /\ printer.nulSepOutput /\ err = NoErr
    /\ \E k \in OpsOf(events, "Write") :
           /\ BufferOf(events, events[k].n) = <<"v", LF, CR>>
           /\ events[k].bytes = <<"v", LF>>

\* C5: with an appendix registered, a call on the empty list obtains the sink
\* of GetWriter(nil), copies the appendix to it, flushes it and succeeds.
C5_EmptyListPipesAppendix ==
    (Called /\ arg = <<>> /\ printer.appendixReader.set)
        => /\ err = NoErr
           /\ Len(events) = 3
           /\ events[1].op = "GetWriterNil" /\ events[2].op = "Copy"
           /\ events[3].op = "FlushAppendix"

\* C6: a call on the empty list succeeds, calls no collaborator and leaves
\* every field of the printer as it was.
C6_EmptyListIsNoOp ==
    [][(op' = "PrintResults" /\ arg' = <<>>)
          => (events' = <<>> /\ err' = NoErr /\ printer' = printer)]_vars

\* an empty call on a printer still to be primed, an appendix waiting
C6_Witness ==
    /\ Called /\ arg = <<>>
    /\ printer.firstTimePrinting
    /\ printer.appendixReader.set /\ printer.appendixReader.rest # <<>>

\* C7: PrintedAnything() is true exactly when some node that reached printNode
\* was neither tagged !!null nor tagged !!bool with the value "false".
C7_PrintedIffNonEmptyReached ==
    printer.printedMatches <=> (FALSE \in reachedEncode)

\* empty nodes only so far, then a call whose one non-empty node is a string "false"
C7_Witness ==
    /\ Called /\ printer.printedMatches
    /\ reachedEncode = {TRUE, FALSE}
    /\ \A k \in OpsOf(events, "Encode") :
           IsEmptyValue(events[k].node)
           \/ (events[k].node.Tag = "!!str" /\ events[k].node.Value = "false")
    /\ \E k \in OpsOf(events, "Encode") : IsEmptyValue(events[k].node)

\* C8: with an encoder that cannot handle aliases, a call on a non-empty list
\* explodes the list once, first of all; every later collaborator call is
\* made for a node of the exploded list and none for an alias; a failed
\* explode is returned with nothing else done and the printer untouched.
\* With an encoder that can, there is no explode and the list is the one given.
C8_ExplodeFirstAndOnce ==
    [][(op' = "PrintResults" /\ arg' # <<>>) =>
          IF canHandleAliases
          THEN OpsOf(events', "Explode") = {} /\ list' = arg'
          ELSE /\ OpsOf(events', "Explode") = {1}
               /\ IF events'[1].ok
                  THEN /\ Len(list') = Len(arg')
                       /\ \A k \in 2 .. Len(events') :
                              /\ events'[k].node.Kind # "AliasNode"
                              /\ events'[k].n >= 1 => events'[k].node = list'[events'[k].n]
                       /\ \A i \in 1 .. Len(arg') :
                              /\ list'[i].Kind # "AliasNode"
                              /\ arg'[i].Kind # "AliasNode" => list'[i] = arg'[i]
                       /\ printer.firstTimePrinting =>
                              printer'.previousFileIndex = list'[1].fileIndex
                  ELSE /\ err' = Err("Explode", 0)
                       /\ Len(events') = 1
                       /\ printer' = printer]_vars

\* two nodes, the second an alias, printed through an encoder that cannot
\* handle aliases
C8_Witness ==
    /\ Called /\ ~canHandleAliases /\ err = NoErr
    /\ Len(arg) = 2 /\ arg[2].Kind = "AliasNode"
    /\ \E k \in OpsOf(events, "Encode") : events[k].n = 2

Failed(evs) == {k \in 1 .. Len(evs) : ~evs[k].ok}

\* C9: at most one collaborator call of a PrintResults call fails; it is the
\* last thing the call does and its error is the one returned; no call is
\* made twice; the nodes before the failing one were each written and
\* flushed, no node after it is touched, and the appendix is piped only after
\* every node was flushed.
C9_FirstFailureEndsCall ==
    Called =>
        /\ \A k \in Failed(events) :
               k = Len(events) /\ err = Err(events[k].op, events[k].n)
        /\ (err # NoErr /\ err # NulConflict) => Failed(events) # {}
        /\ \A j, k \in 1 .. Len(events) :
               (events[j].op = events[k].op /\ events[j].n = events[k].n) => j = k
        /\ \A j, k \in 1 .. Len(events) :
               (j < k /\ events[j].n >= 1 /\ events[k].n >= 1) => events[j].n <= events[k].n
        /\ \A k \in 1 .. Len(events) :
               events[k].n >= 1 =>
                   \A i \in 1 .. events[k].n - 1 :
                       \E j \in 1 .. k - 1 :
                           events[j].op = "Flush" /\ events[j].n = i /\ events[j].ok
        /\ (\E k \in 1 .. Len(events) :
                events[k].op \in {"GetWriterNil", "Copy", "FlushAppendix"})
               => \A i \in 1 .. Len(list) :
                      \E j \in OpsOf(events, "Flush") : events[j].n = i /\ events[j].ok

\* the second node's Flush fails after the first node went out, an appendix waiting
C9_Witness ==
    /\ Called /\ err = Err("Flush", 2)
    /\ printer.appendixReader.set /\ printer.appendixReader.rest # <<>>
    /\ \E j \in OpsOf(events, "Flush") : events[j].n = 1 /\ events[j].ok
    /\ OpsOf(events, "GetWriterNil") = {}

\* C10: a successful call on a non-empty list with an appendix registered
\* calls GetWriter(nil) once, right after the last node's Flush, copies what
\* the source still holds, and flushes; over the calls made with one source
\* no more bytes are copied than the source held, and a call on a drained
\* source copies none.
C10_AppendixOnceAfterNodes ==
    [][(op' = "PrintResults" /\ arg' # <<>>) =>
          /\ (err' = NoErr /\ printer.appendixReader.set) =>
                 LET m == Len(events')
                 IN  /\ OpsOf(events', "GetWriterNil") = {m - 2}
                     /\ events'[m - 3].op = "Flush" /\ events'[m - 3].n = Len(list')
                     /\ events'[m - 1].op = "Copy"
                     /\ events'[m - 1].bytes = printer.appendixReader.rest
                     /\ events'[m].op = "FlushAppendix"
                     /\ printer'.appendixReader = Reader(<<>>)
          /\ source'.copied <= source'.len
          /\ printer.appendixReader.rest = <<>> => source'.copied = source.copied]_vars

\* a second successful call on a source the first call drained
C10_Witness ==
    /\ Called /\ err = NoErr /\ list # <<>>
    /\ source.len > 0 /\ source.copied = source.len
    /\ \E k \in OpsOf(events, "Copy") : events[k].bytes = <<>>

\* the Encode calls of a trace, in order
Encodes(evs) == SelectSeq(evs, LAMBDA e : e.op = "Encode")

\* C11: with an encoder that handles aliases, the Encode calls of a
\* PrintResults call are made for the nodes of the list given, in the list's
\* order, one each, starting with the first: all of them when the call
\* succeeds, a prefix of them when it fails.
C11_EncodeEachNodeInOrder ==
    (Called /\ canHandleAliases) =>
        LET enc == Encodes(events)
        IN  /\ Len(enc) <= Len(arg)
            /\ \A k \in 1 .. Len(enc) : enc[k].node = arg[k] /\ enc[k].n = k
            /\ err = NoErr => Len(enc) = Len(arg)

\* two different nodes, both encoded, in the order given
C11_Witness ==
    /\ Called /\ canHandleAliases /\ err = NoErr
    /\ Len(arg) = 2 /\ arg[1] # arg[2]
    /\ Len(Encodes(events)) = 2

Resolved == resolved # Pending

\* one string is a proper prefix of the other
ProperPrefixOrExtension(a, b) == a # b /\ (IsPrefix(a, b) \/ IsPrefix(b, a))

\* C12: OutputFormatFromString, given the canonical name or an alias of a
\* registered format, returns that format and no error (so a format's names
\* all resolve to the one format that declares them), and given a string that
\* is only a proper prefix or extension of a format's names it does not
\* return that format.
C12_NameResolvesToItsFormat ==
    Resolved =>
        \A i \in 1 .. Len(Formats) :
            /\ format \in NamesOf(Formats[i])
                   => resolved = [printerFormat |-> i, err |-> "nil"]
            /\ (format \notin NamesOf(Formats[i])
                /\ \E name \in NamesOf(Formats[i]) : ProperPrefixOrExtension(format, name))
                   => resolved.printerFormat # i

\* C17: the canonical names of the registry are pairwise distinct, and
\* OutputFormatFromString returns the unknown-format error for every string
\* that is not a declared name of a format with an encoder factory, so that
\* no string resolves to a format without one.
C17_OnlyFormatsWithFactoryResolve ==
    /\ \A i, j \in 1 .. Len(Formats) :
           i # j => Formats[i].FormalName # Formats[j].FormalName
    /\ Resolved =>
           /\ (~\E i \in 1 .. Len(Formats) :
                   Formats[i].EncoderFactory # "nil" /\ format \in NamesOf(Formats[i]))
                  => resolved.err = "unknown format"
           /\ resolved.err = "nil" => Formats[resolved.printerFormat].EncoderFactory # "nil"

\* the events of a trace made for the node at position i
EventsAt(evs, name, i) == {k \in OpsOf(evs, name) : evs[k].n = i}

\* C13: in a PrintResults call, PrintDocumentSeparator is called for a node
\* exactly when the printer's last-seen document index or last-seen file
\* index differs from the node's and the node's leading content does not
\* start with the sentinel; the last-seen document index is that of the node
\* before, whether or not that node's separator was suppressed. The call is
\* made once, on the node's own sink, after its GetWriter and before its
\* PrintLeadingContent and Encode.
C13_SeparatorIffDueOnOwnSink ==
    [][op' = "PrintResults" =>
        \A i \in 1 .. Len(list') :
            LET node == list'[i]
                lastDoc == IF i > 1 THEN list'[i - 1].document
                           ELSE IF printer.firstTimePrinting THEN node.document
                           ELSE printer.previousDocIndex
                lastFile == IF printer.firstTimePrinting THEN list'[1].fileIndex
                            ELSE printer.previousFileIndex
                seps == EventsAt(events', "PrintDocumentSeparator", i)
            IN  /\ seps # {} <=>
                       /\ lastDoc # node.document \/ lastFile # node.fileIndex
                       /\ ~HasSentinelPrefix(node.LeadingContent)
                /\ Cardinality(seps) <= 1
                /\ \A k \in seps :
                       /\ events'[k].dest = "writer" /\ events'[k].node = node
                       /\ \E g \in EventsAt(events', "GetWriter", i) : g < k
                       /\ \A j \in EventsAt(events', "PrintLeadingContent", i)
                                   \cup EventsAt(events', "Encode", i) : k < j
    ]_vars

\* a second node of another document whose leading content holds the sentinel
\* after a comment line: the separator is called, between GetWriter and
\* PrintLeadingContent
C13_Witness ==
    /\ Called /\ Len(list) = 2
    /\ list[2] \in CommentedNodes /\ list[2].document # list[1].document
    /\ \E k \in EventsAt(events, "PrintDocumentSeparator", 2) :
           /\ events[k - 1].op = "GetWriter" /\ events[k - 1].n = 2
           /\ events[k + 1].op = "PrintLeadingContent" /\ events[k + 1].n = 2

\* the call that made this step primed the printer
Primed == printer.firstTimePrinting /\ ~printer'.firstTimePrinting

\* C14: the first node a printer ever processes gets no PrintDocumentSeparator,
\* whatever its indices and whatever calls came before (on an empty list, or
\* failed in the explode operation: both leave the printer unprimed). The
\* first-call flag is cleared by the first call that reaches the loop and is
\* never set again, and the last-seen file index is written only by that call.
C14_FirstNodeNeverSeparated ==
    [][/\ ~printer.firstTimePrinting => ~printer'.firstTimePrinting
       /\ printer'.previousFileIndex # printer.previousFileIndex => Primed
       /\ (op' = "PrintResults" /\ printer.firstTimePrinting) =>
              /\ printer'.firstTimePrinting <=> (arg' = <<>> \/ err' = Err("Explode", 0))
              /\ EventsAt(events', "PrintDocumentSeparator", 1) = {}
              /\ Primed => /\ EventsAt(events', "GetWriter", 1) # {}
                           /\ printer'.previousFileIndex = list'[1].fileIndex
    ]_vars

\* after a call that failed in the explode operation, the first node processed
\* is of document 1 and file 1 and no separator is called for it
C14_Witness ==
    /\ Called /\ fresh /\ given > Len(arg) /\ err = NoErr
    /\ Len(list) >= 1 /\ list[1].document = 1 /\ list[1].fileIndex = 1
    /\ ~HasSentinelPrefix(list[1].LeadingContent)
    /\ EventsAt(events, "Encode", 1) # {}
    /\ OpsOf(events, "PrintDocumentSeparator") = {}
    /\ ~printer.firstTimePrinting

MaxOf(S) == CHOOSE x \in S : \A y \in S : y <= x

\* C15: a PrintResults call on a primed printer leaves the last-seen file
\* index as it was, the call that primes it leaves the first node's file
\* index there; the last-seen document index is written for a node after its
\* content is encoded and before its sink is flushed (so it is the document
\* of the last node whose Encode succeeded, a failed Flush included); and
\* every node processed whose file index differs from the remembered one and
\* whose leading content lacks the sentinel gets a PrintDocumentSeparator.
C15_FileIndexKeptDocumentIndexFollows ==
    [][op' = "PrintResults" =>
        LET encoded == {i \in 1 .. Len(list') :
                           \E k \in EventsAt(events', "Encode", i) : events'[k].ok}
        IN  /\ ~printer.firstTimePrinting =>
                   printer'.previousFileIndex = printer.previousFileIndex
            /\ Primed => printer'.previousFileIndex = list'[1].fileIndex
            /\ printer'.previousDocIndex =
                   IF encoded # {} THEN list'[MaxOf(encoded)].document
                   ELSE IF Primed THEN list'[1].document
                   ELSE printer.previousDocIndex
            /\ \A i \in 1 .. Len(list') :
                   (/\ EventsAt(events', "GetWriter", i) # {}
                    /\ list'[i].fileIndex # printer'.previousFileIndex
                    /\ ~HasSentinelPrefix(list'[i].LeadingContent))
                       => EventsAt(events', "PrintDocumentSeparator", i) # {}
    ]_vars

\* the second node is of another document and another file and its Flush
\* fails: its document is remembered, the first node's file is kept
C15_Witness ==
    /\ Called /\ fresh /\ Len(list) = 2 /\ err = Err("Flush", 2)
    /\ list[2].document # list[1].document /\ list[2].fileIndex # list[1].fileIndex
    /\ printer.previousDocIndex = list[2].document
    /\ printer.previousFileIndex = list[1].fileIndex
    /\ EventsAt(events, "PrintDocumentSeparator", 2) # {}

\* C16: a PrintResults call that succeeds on n nodes calls GetWriter with a
\* node n times, once for each node of the list and with that node; each of
\* these sinks is flushed once; every call made for node i lies between its
\* GetWriter and its Flush, and the Flush of node i comes before the
\* GetWriter of node i+1.
C16_OneSinkPerNodeFlushedOnce ==
    (Called /\ err = NoErr) =>
        /\ Cardinality(OpsOf(events, "GetWriter")) = Len(list)
        /\ Cardinality(OpsOf(events, "Flush")) = Len(list)
        /\ \A i \in 1 .. Len(list) :
               /\ Cardinality(EventsAt(events, "GetWriter", i)) = 1
               /\ Cardinality(EventsAt(events, "Flush", i)) = 1
               /\ \A g \in EventsAt(events, "GetWriter", i) :
                  \A fl \in EventsAt(events, "Flush", i) :
                      /\ events[g].node = list[i] /\ events[fl].node = list[i]
                      /\ \A k \in 1 .. Len(events) : events[k].n = i => (g <= k /\ k <= fl)
                      /\ \A h \in EventsAt(events, "GetWriter", i + 1) : fl < h

\* two nodes of two documents written as NUL-separated records
C16_Witness ==
    /\ Called /\ err = NoErr /\ Len(list) = 2 /\ printer.nulSepOutput
    /\ EventsAt(events, "PrintDocumentSeparator", 2) # {}
    /\ EventsAt(events, "WriteNUL", 1) # {} /\ EventsAt(events, "WriteNUL", 2) # {}

\* a trace as the collaborators see it: the calls and their arguments,
\* without the position the node had in the list of its call
Collaborations(evs) ==
    [k \in 1 .. Len(evs) |->
        [op |-> evs[k].op, node |-> evs[k].node, dest |-> evs[k].dest,
         bytes |-> evs[k].bytes, ok |-> evs[k].ok]]

\* C18: with an encoder that handles aliases, no appendix and no failure, a
\* PrintResults call on a list leaves the trace and the printer that two
\* calls made in its place leave, the first on the list's first k nodes and
\* the second on the rest, for every k from 0 to the list's length.
C18_SplitCallsEquivalent ==
    [][(op' = "PrintResults" /\ canHandleAliases /\ err' = NoErr
        /\ ~printer.appendixReader.set) =>
        \A k \in 0 .. Len(arg') :
            \A first \in {printResults(printer, canHandleAliases, SubSeq(arg', 1, k), NoFault)} :
            \A second \in {printResults(first.p, canHandleAliases,
                                        SubSeq(arg', k + 1, Len(arg')), NoFault)} :
                /\ first.err = NoErr /\ second.err = NoErr
                /\ Collaborations(first.ev) \o Collaborations(second.ev)
                       = Collaborations(events')
                /\ second.p = printer'
    ]_vars

\* a list of two nodes with a document boundary between them, which a split
\* in the middle puts between the two calls
C18_Witness ==
    /\ Called /\ fresh /\ canHandleAliases /\ err = NoErr
    /\ Len(arg) = 2 /\ arg[1].document # arg[2].document
    /\ EventsAt(events, "PrintDocumentSeparator", 2) # {}

\* C19: PrintedAnything() never goes back from true to false, under
\* PrintResults, SetAppendix and SetNulSepOutput; and it is true after every
\* PrintResults call in which Encode was called for a non-empty node, also
\* when that Encode failed or the NUL check rejected what it wrote.
C19_PrintedAnythingMonotonic ==
    [][/\ printer.printedMatches => printer'.printedMatches
       /\ op' = "PrintResults" =>
              ((\E k \in OpsOf(events', "Encode") : ~IsEmptyValue(events'[k].node))
                   => printer'.printedMatches)
    ]_vars

\* the first call of a printer, on one node, ends in the NUL conflict with
\* nothing written to a sink: PrintedAnything() is true
C19_Witness ==
    /\ Called /\ given = 1 /\ Len(list) = 1 /\ ~IsEmptyValue(list[1])
    /\ err = NulConflict /\ SinkBytes(events) = <<>>
    /\ printer.printedMatches /\ printer.appendixReader.set

====
